---- MODULE Spec2Model ----
(***************************************************************************)
(* chafka: the per-ingester batch-and-commit loop of src/ingester.rs       *)
(* (Ingester::start, get_batch, try_insert, insert_batch) together with    *)
(* the Kafka consumer group and the ClickHouse table it talks to.          *)
(*                                                                         *)
(* The broker holds, per (topic, partition), a log of messages and the     *)
(* offset committed by the consumer group.  The consumer holds its fetch   *)
(* position per partition.  The ingester is one sequential task; pc is     *)
(* its position in the code.                                               *)
(***************************************************************************)
EXTENDS Integers, Sequences, FiniteSets, TLC

\* ------------------------------------------------------------------ bounds
LogLen == 2
MaxBatchSize == 2

\* ------------------------------------------------------------ environment
Topic == "t"
\* The topic has two partitions.
Partitions == {1, 2}
Keys == {<<Topic, p>> : p \in Partitions}

\* What a message's payload is to the configured decoder.
PayloadKinds == {"good", "malformed", "absent"}

VARIABLES
    log,          \* broker: Keys -> sequence of payload kinds; offset o is log[k][o+1]
    committed,    \* broker: Keys -> offset committed for the consumer group
    table,        \* ClickHouse: the blocks inserted successfully, in order
    position,     \* consumer: Keys -> next offset recv will deliver
    batch_size,   \* Ingester.batch_size
    batch,        \* Ingester.batch
    topic_map,    \* get_batch's topic_map, then try_insert's tpl
    pc,           \* where the ingester task is
    received,     \* history: every message some recv returned
    window,       \* history: the messages of the current window, in receive order
    flush,        \* history: what the last try_insert was given and did
    processed,    \* history: Keys -> max(offset + 1) over the messages of the
                  \* windows this ingester has processed to the end (B1..Bk),
                  \* 0 when there is none
    schema,       \* avro: the Schema that get_schema returned
    settings,     \* avro: Settings (field_names, include_fields, exclude_fields)
    decoder,      \* avro: what decoder::avro::new returned
    message,      \* avro: the bytes last given to Decoder::decode
    result        \* avro: what Decoder::decode did with them

\* The state of the Avro decoder of src/decoder/avro.rs.
avro_vars == <<schema, settings, decoder, message, result>>

vars == <<log, committed, table, position, batch_size, batch, topic_map, pc,
          received, window, flush, processed, avro_vars>>

\* ----------------------------------------------------------------- helpers
EmptyMap == [k \in {} |-> 0]

Max(S) == CHOOSE x \in S : \A y \in S : y <= x

\* The message recv delivers from partition key k at offset o.
Message(k, o) ==
    [topic |-> k[1], partition |-> k[2], offset |-> o,
     payload |-> [kind |-> log[k][o + 1], body |-> <<k, o>>]]

MsgKey(msg) == <<msg.topic, msg.partition>>

\* Mutant: a decoder that returns a row for whatever bytes it is given.
Decode_lenient(payload) == [ok |-> TRUE, row |-> payload.body]

\* decoder.decode: a row for a payload it understands, an error otherwise.
Decode(payload) ==
    IF payload.kind = "good"
    THEN [ok |-> TRUE, row |-> payload.body]
    ELSE [ok |-> FALSE, row |-> <<>>]

NextOffset(msg) == msg.offset + 1

\* Mutant: the entry is set by the first message of the partition only.
TopicMapUpdate_keep_first(tm, k, next_offset) ==
    IF k \notin DOMAIN tm
    THEN [x \in DOMAIN tm \cup {k} |-> IF x = k THEN next_offset ELSE tm[x]]
    ELSE tm

\* Mutant: the entry is overwritten by every message.
TopicMapUpdate_overwrite(tm, k, next_offset) ==
    [x \in DOMAIN tm \cup {k} |-> IF x = k THEN next_offset ELSE tm[x]]

\* The match on topic_map.get(&k): insert when absent or smaller.
TopicMapUpdate(tm, k, next_offset) ==
    IF k \notin DOMAIN tm
    THEN [x \in DOMAIN tm \cup {k} |-> IF x = k THEN next_offset ELSE tm[x]]
    ELSE IF tm[k] < next_offset
         THEN [tm EXCEPT ![k] = next_offset]
         ELSE tm

\* Mutant: the loop test is off by one.
LoopPc_le(b) == IF Len(b) <= batch_size THEN "recv" ELSE "start_check"

\* while self.batch.len() < self.batch_size
LoopPc(b) == IF Len(b) < batch_size THEN "recv" ELSE "start_check"

\* The sequences over S of length at most n.
Seq2(S, n) == UNION {[1..m -> S] : m \in 0..n}

\* offset + 1 of the messages of partition key k among msgs.
NextOffsets(msgs, k) ==
    {msgs[i][2] + 1 : i \in {j \in 1..Len(msgs) : msgs[j][1] = k}}

\* The elements of a sequence (the rows of a batch), as a set.
Rows(b) == {b[i] : i \in 1..Len(b)}

\* No try_insert has run since the ingester was constructed.
NoFlush ==
    [active |-> FALSE, msgs |-> <<>>, batch |-> <<>>,
     tpl |-> EmptyMap, presented |-> {}, retried |-> FALSE,
     inserted |-> <<>>, inserted_ok |-> FALSE, commits |-> <<>>,
     prev_failed |-> EmptyMap, done |-> FALSE]

\* The window get_batch opens on entry: nothing received yet; the loop is not
\* even entered when the batch already holds batch_size rows.
NewWindow(b) ==
    [msgs |-> <<>>, end |-> IF Len(b) < batch_size THEN "open" ELSE "full"]

\* ------------------------------------------------------------------- Init
\* Ingester::new followed by the first lines of Ingester::start, against a
\* broker whose first partition holds LogLen messages and whose second holds
\* one less, and a group that has committed nothing (auto.offset.reset =
\* earliest).
\* The loop of src/ingester.rs is modelled with the Decoder trait only; no
\* Avro decoder has been constructed.
NoDecoder ==
    /\ schema = [type |-> "none", fields |-> <<>>]
    /\ settings = [field_names |-> {}, include_fields |-> {}, exclude_fields |-> {}]
    /\ decoder = [st |-> "none"]
    /\ message = [len |-> 0, wellformed |-> FALSE, datum |-> <<>>]
    /\ result = [st |-> "none", row |-> <<>>, err |-> ""]

InitIngester ==
    /\ committed = [k \in Keys |-> 0]
    /\ position = [k \in Keys |-> 0]
    /\ table = {}
    /\ batch = <<>>
    /\ topic_map = EmptyMap
    /\ pc = LoopPc(<<>>)
    /\ received = {}
    /\ window = NewWindow(<<>>)
    /\ flush = NoFlush
    /\ processed = [k \in Keys |-> 0]

InitSmall ==
    /\ log \in {l \in [Keys -> Seq2({"good", "malformed"}, LogLen)] :
                    \A k \in Keys : Len(l[k]) = LogLen + 1 - k[2]}
    /\ batch_size \in 0..MaxBatchSize
    /\ InitIngester
    /\ NoDecoder

\* A message without payload (a tombstone) among decodable ones.
TombstoneLog == <<"good", "absent", "good">>

InitTombstone ==
    /\ log = [k \in Keys |-> IF k[2] = 1 THEN TombstoneLog ELSE <<"malformed", "good">>]
    /\ batch_size = Len(TombstoneLog)
    /\ InitIngester
    /\ NoDecoder

\* Ten messages at offsets 0..9 of one partition, the one at offset 5
\* undecodable; the other partitions are empty.
ScenarioLog ==
    <<"good", "good", "good", "good", "good", "malformed",
      "good", "good", "good", "good">>

InitScenario ==
    /\ log = [k \in Keys |-> IF k[2] = 1 THEN ScenarioLog ELSE <<>>]
    /\ batch_size = Len(ScenarioLog)
    /\ InitIngester
    /\ NoDecoder

Init == InitSmall \/ InitScenario \/ InitTombstone

\* ------------------------------------------------------------- get_batch
\* Mutant: decode first, and record the offset of decoded messages only.
get_batch_recv_skip(k) ==
    /\ pc = "recv"
    /\ position[k] < Len(log[k])
    /\ LET msg == Message(k, position[k])
           d == Decode(msg.payload)
       IN  /\ position' = [position EXCEPT ![k] = @ + 1]
           /\ received' = received \cup {<<k, msg.offset>>}
           /\ topic_map' = IF d.ok
                           THEN TopicMapUpdate(topic_map, MsgKey(msg), NextOffset(msg))
                           ELSE topic_map
           /\ batch' = IF d.ok THEN Append(batch, d.row) ELSE batch
           /\ pc' = LoopPc(batch')
           /\ window' = [msgs |-> Append(window.msgs, <<k, msg.offset>>),
                         end |-> IF Len(batch') < batch_size THEN "open" ELSE "full"]
    /\ UNCHANGED <<avro_vars, log, committed, table, batch_size, flush, processed>>

\* Mutant: a decoded row is put in front of the rows already collected.
get_batch_recv_prepend(k) ==
    /\ pc = "recv"
    /\ position[k] < Len(log[k])
    /\ LET msg == Message(k, position[k])
           next_offset == NextOffset(msg)
           d == Decode(msg.payload)
       IN  /\ position' = [position EXCEPT ![k] = @ + 1]
           /\ received' = received \cup {<<k, msg.offset>>}
           /\ topic_map' = TopicMapUpdate(topic_map, MsgKey(msg), next_offset)
           /\ IF msg.payload.kind = "absent"
              THEN /\ batch' = batch
                   /\ pc' = "panicked"
                   /\ window' = [msgs |-> Append(window.msgs, <<k, msg.offset>>),
                                 end |-> "panic"]
              ELSE /\ batch' = IF d.ok THEN <<d.row>> \o batch ELSE batch
                   /\ pc' = LoopPc(batch')
                   /\ window' = [msgs |-> Append(window.msgs, <<k, msg.offset>>),
                                 end |-> IF Len(batch') < batch_size
                                         THEN "open" ELSE "full"]
    /\ UNCHANGED <<avro_vars, log, committed, table, batch_size, flush, processed>>

\* One iteration of the loop in which recv returns a message of partition k.
get_batch_recv(k) ==
    /\ pc = "recv"
    /\ position[k] < Len(log[k])
    /\ LET msg == Message(k, position[k])
           next_offset == NextOffset(msg)
           d == Decode(msg.payload)
       IN  /\ position' = [position EXCEPT ![k] = @ + 1]
           /\ received' = received \cup {<<k, msg.offset>>}
           /\ topic_map' = TopicMapUpdate(topic_map, MsgKey(msg), next_offset)
           /\ IF msg.payload.kind = "absent"
              THEN \* msg.payload().unwrap() panics: the task is gone
                   /\ batch' = batch
                   /\ pc' = "panicked"
                   /\ window' = [msgs |-> Append(window.msgs, <<k, msg.offset>>),
                                 end |-> "panic"]
              ELSE /\ batch' = IF d.ok THEN Append(batch, d.row) ELSE batch
                   /\ pc' = LoopPc(batch')
                   /\ window' = [msgs |-> Append(window.msgs, <<k, msg.offset>>),
                                 end |-> IF Len(batch') < batch_size
                                         THEN "open" ELSE "full"]
    /\ UNCHANGED <<avro_vars, log, committed, table, batch_size, flush, processed>>

\* Mutant: a timeout throws the rows collected so far away.
get_batch_timeout_drop ==
    /\ pc = "recv"
    /\ pc' = "start_check"
    /\ batch' = <<>>
    /\ window' = [window EXCEPT !.end = "timeout"]
    /\ UNCHANGED <<avro_vars, log, committed, table, position, batch_size, topic_map,
                   received, flush, processed>>

\* recv did not return within batch_timeout.
get_batch_timeout ==
    /\ pc = "recv"
    /\ pc' = "start_check"
    /\ window' = [window EXCEPT !.end = "timeout"]
    /\ UNCHANGED <<avro_vars, log, committed, table, position, batch_size, batch,
                   topic_map, received, flush, processed>>

\* recv returned a transport error.
get_batch_error ==
    /\ pc = "recv"
    /\ pc' = "start_check"
    /\ window' = [window EXCEPT !.end = "error"]
    /\ UNCHANGED <<avro_vars, log, committed, table, position, batch_size, batch,
                   topic_map, received, flush, processed>>

\* ------------------------------------------------------------------ start
\* tpl.count() + self.batch.len() == 0: continue, into the next get_batch.
start_continue ==
    /\ pc = "start_check"
    /\ Cardinality(DOMAIN topic_map) + Len(batch) = 0
    /\ topic_map' = EmptyMap
    /\ window' = NewWindow(batch)
    /\ pc' = LoopPc(batch)
    /\ UNCHANGED <<avro_vars, log, committed, table, position, batch_size, batch,
                   received, flush, processed>>

\* Mutant: try_insert is called for every window, empty or not.
start_flush_always ==
    /\ pc = "start_check"
    /\ pc' = "insert_batch"
    /\ flush' = [active |-> TRUE, msgs |-> window.msgs, batch |-> batch,
                 tpl |-> topic_map, presented |-> {}, retried |-> FALSE,
                 inserted |-> <<>>, inserted_ok |-> FALSE, commits |-> <<>>,
                 prev_failed |-> IF flush.done /\ ~flush.commits[1].ok
                                 THEN flush.tpl ELSE EmptyMap,
                 done |-> FALSE]
    /\ UNCHANGED <<avro_vars, log, committed, table, position, batch_size, batch,
                   topic_map, received, window, processed>>

\* Otherwise: self.try_insert(tpl).
start_flush ==
    /\ pc = "start_check"
    /\ Cardinality(DOMAIN topic_map) + Len(batch) # 0
    /\ pc' = "insert_batch"
    /\ flush' = [active |-> TRUE, msgs |-> window.msgs, batch |-> batch,
                 tpl |-> topic_map, presented |-> {}, retried |-> FALSE,
                 inserted |-> <<>>, inserted_ok |-> FALSE, commits |-> <<>>,
                 prev_failed |-> IF flush.done /\ ~flush.commits[1].ok
                                 THEN flush.tpl ELSE EmptyMap,
                 done |-> FALSE]
    /\ UNCHANGED <<avro_vars, log, committed, table, position, batch_size, batch,
                   topic_map, received, window, processed>>

\* ----------------------------------------------------------- insert_batch
\* Mutant: an empty batch counts as a failed insert.
insert_batch_empty_err ==
    /\ pc = "insert_batch"
    /\ batch = <<>>
    /\ pc' = "sleep"
    /\ flush' = [flush EXCEPT !.retried = TRUE]
    /\ UNCHANGED <<avro_vars, log, committed, table, position, batch_size, batch,
                   topic_map, received, window, processed>>

\* self.batch.is_empty(): Ok(()) without touching the database.
insert_batch_empty ==
    /\ pc = "insert_batch"
    /\ batch = <<>>
    /\ pc' = "commit"
    /\ flush' = [flush EXCEPT !.inserted_ok = TRUE]
    /\ UNCHANGED <<avro_vars, log, committed, table, position, batch_size, batch,
                   topic_map, received, window, processed>>

\* Mutant: the batch is truncated whether or not the insert succeeded.
insert_batch_err_clears ==
    /\ pc = "insert_batch"
    /\ batch # <<>>
    /\ flush' = [flush EXCEPT !.presented = @ \cup {batch}, !.retried = TRUE]
    /\ batch' = <<>>
    /\ pc' = "sleep"
    /\ UNCHANGED <<avro_vars, log, committed, table, position, batch_size, topic_map,
                   received, window, processed>>

\* Mutant: the error is printed and the offsets are committed all the same.
insert_batch_err_commits ==
    /\ pc = "insert_batch"
    /\ batch # <<>>
    /\ flush' = [flush EXCEPT !.presented = @ \cup {batch}, !.retried = TRUE]
    /\ pc' = "commit"
    /\ UNCHANGED <<avro_vars, log, committed, table, position, batch_size, batch,
                   topic_map, received, window, processed>>

\* get_handle, block.push or ch.insert returns an error: the batch stays.
insert_batch_err ==
    /\ pc = "insert_batch"
    /\ batch # <<>>
    /\ \E cause \in {"get_handle", "push", "insert"} :
          flush' = [flush EXCEPT !.presented =
                        IF cause = "insert" THEN @ \cup {batch} ELSE @,
                                 !.retried = TRUE]
    /\ pc' = "sleep"
    /\ UNCHANGED <<avro_vars, log, committed, table, position, batch_size, batch,
                   topic_map, received, window, processed>>

\* ch.insert succeeds: the block is in the table, the batch is truncated.
insert_batch_ok ==
    /\ pc = "insert_batch"
    /\ batch # <<>>
    /\ table' = table \cup Rows(batch)
    /\ batch' = <<>>
    /\ pc' = "commit"
    /\ flush' = [flush EXCEPT !.presented = @ \cup {batch},
                              !.inserted = Append(@, batch),
                              !.inserted_ok = TRUE]
    /\ UNCHANGED <<avro_vars, log, committed, position, batch_size, topic_map, received,
                   window, processed>>

\* ------------------------------------------------------------- try_insert
\* sleep(CH_BACKOFF), then the loop calls insert_batch again.
try_insert_backoff ==
    /\ pc = "sleep"
    /\ pc' = "insert_batch"
    /\ UNCHANGED <<avro_vars, log, committed, table, position, batch_size, batch,
                   topic_map, received, window, flush, processed>>

\* Mutant: the commit reaches the broker with no offsets in it.
Commit_nothing(c, tpl) == c

\* What the broker holds once it has accepted a commit of tpl.
Commit(c, tpl) == [k \in DOMAIN c |-> IF k \in DOMAIN tpl THEN tpl[k] ELSE c[k]]

\* consumer.commit(&tpl, Sync) succeeds; try_insert returns, start loops.
try_insert_commit_ok ==
    /\ pc = "commit"
    /\ committed' = Commit(committed, topic_map)
    /\ flush' = [flush EXCEPT !.commits = Append(@, [tpl |-> topic_map, ok |-> TRUE]),
                              !.done = TRUE]
    /\ topic_map' = EmptyMap
    /\ window' = NewWindow(batch)
    /\ pc' = LoopPc(batch)
    /\ processed' = [k \in Keys |-> Max({processed[k]} \cup NextOffsets(flush.msgs, k))]
    /\ UNCHANGED <<avro_vars, log, table, position, batch_size, batch, received>>

\* Mutant: a failed commit is tried again instead of returning.
try_insert_commit_fail_again ==
    /\ pc = "commit"
    /\ flush' = [flush EXCEPT !.commits = Append(@, [tpl |-> topic_map, ok |-> FALSE])]
    /\ UNCHANGED <<avro_vars, log, committed, table, position, batch_size, batch,
                   topic_map, pc, received, window, processed>>

\* consumer.commit fails: the error is printed; try_insert returns all the same.
try_insert_commit_fail ==
    /\ pc = "commit"
    /\ flush' = [flush EXCEPT !.commits = Append(@, [tpl |-> topic_map, ok |-> FALSE]),
                              !.done = TRUE]
    /\ topic_map' = EmptyMap
    /\ window' = NewWindow(batch)
    /\ pc' = LoopPc(batch)
    /\ processed' = [k \in Keys |-> Max({processed[k]} \cup NextOffsets(flush.msgs, k))]
    /\ UNCHANGED <<avro_vars, log, committed, table, position, batch_size, batch, received>>

\* ---------------------------------------------------------------- restart
\* The process dies (crash, kill, panic of the task and operator restart) and
\* a new Ingester is constructed: empty batch, consumer resuming the group
\* from the committed offsets.
Restart ==
    /\ batch' = <<>>
    /\ topic_map' = EmptyMap
    /\ position' = committed
    /\ window' = NewWindow(<<>>)
    /\ flush' = NoFlush
    /\ processed' = [k \in Keys |-> 0]
    /\ pc' = LoopPc(<<>>)
    /\ UNCHANGED <<avro_vars, log, committed, table, batch_size, received>>

\* ------------------------------------------------------------------- Next
Run ==
    \/ \E k \in Keys : get_batch_recv(k)
    \/ get_batch_timeout
    \/ get_batch_error
    \/ start_continue
    \/ start_flush
    \/ insert_batch_empty
    \/ insert_batch_err
    \/ insert_batch_ok
    \/ try_insert_backoff
    \/ try_insert_commit_ok
    \/ try_insert_commit_fail

Next == Run \/ Restart

Spec == Init /\ [][Next]_vars

\* The ingester left running (no restart), its task scheduled, the sleep
\* ending, the broker answering the commit, and a database that accepts
\* the insert on some attempt.
LiveSpec ==
    /\ Init
    /\ [][Run]_vars
    /\ WF_vars(try_insert_backoff)
    /\ WF_vars(insert_batch_empty)
    /\ SF_vars(insert_batch_ok)
    /\ WF_vars(try_insert_commit_ok \/ try_insert_commit_fail)

\* ------------------------------------------------------- the offset map
\* The offset tracking of get_batch on its own, fed by a consumer that may
\* deliver the offsets of a partition in any order (redelivery after a
\* rebalance or a seek): up to MaxWindow messages per window, with offsets
\* 0..MaxOffset.
MaxOffset == 2
MaxWindow == 3

OffsetInit ==
    /\ log = [k \in Keys |-> <<>>]
    /\ batch_size \in 1..MaxBatchSize
    /\ InitIngester
    /\ NoDecoder

\* let k = ...; let next_offset = msg.offset() + 1; match topic_map.get(&k)
offset_recv(k, o) ==
    /\ Len(window.msgs) < MaxWindow
    /\ LET msg == [topic |-> k[1], partition |-> k[2], offset |-> o]
       IN  /\ topic_map' = TopicMapUpdate(topic_map, MsgKey(msg), NextOffset(msg))
           /\ window' = [window EXCEPT !.msgs = Append(@, <<MsgKey(msg), msg.offset>>)]
    /\ UNCHANGED <<avro_vars, log, committed, table, position, batch_size, batch, pc,
                   received, flush, processed>>

\* get_batch is entered again: let mut topic_map = HashMap::new()
offset_new_window ==
    /\ window.msgs # <<>>
    /\ topic_map' = EmptyMap
    /\ window' = NewWindow(batch)
    /\ UNCHANGED <<avro_vars, log, committed, table, position, batch_size, batch, pc,
                   received, flush, processed>>

OffsetNext ==
    \/ \E k \in Keys, o \in 0..MaxOffset : offset_recv(k, o)
    \/ offset_new_window

OffsetSpec == OffsetInit /\ [][OffsetNext]_vars

\* --------------------------------------------------- the Avro decoder
\* src/decoder/avro.rs: schema analysis at construction, then decode.

\* Length of the Confluent wire-format header decode strips.
CONFLUENT_HEADER_LEN == 5

\* Unsigned integers of the program's widths, as little-endian sequences of
\* bytes: u32 has 4, u64 has 8, u128 has 16.
Base == 2 ^ 8

RECURSIVE ToLimbs(_, _)
ToLimbs(n, w) == IF w = 0 THEN <<>> ELSE <<n % Base>> \o ToLimbs(n \div Base, w - 1)

\* x as u64, as u128: the same number in more bytes.
Extend(a, w) == [i \in 1..w |-> IF i <= Len(a) THEN a[i] ELSE 0]

\* x as u64 of a u128: the low bytes; Fits tells whether nothing is cut off.
Trunc(a, w) == [i \in 1..w |-> a[i]]
Fits(a, w) == \A i \in 1..Len(a) : i > w => a[i] = 0

\* F(a) and F(a, b) with the operands evaluated once.
Once1(F(_), a) == CHOOSE r \in {F(y) : y \in {a}} : TRUE
Once2(F(_, _), a, b) == CHOOSE r \in {F(p[1], p[2]) : p \in {<<a, b>>}} : TRUE

\* a + b in the width of a; carry is what does not fit.
RECURSIVE CarryAdd(_, _, _)
CarryAdd(a, b, i) ==
    IF i = 0 THEN 0 ELSE (a[i] + b[i] + CarryAdd(a, b, i - 1)) \div Base
AddBytes(a, b) ==
    [v |-> [i \in 1..Len(a) |-> (a[i] + b[i] + CarryAdd(a, b, i - 1)) % Base],
     carry |-> CarryAdd(a, b, Len(a))]
AddLimbs(a, b) == Once2(AddBytes, a, b)

\* k * a in the width of a, for a small k; carry is what does not fit.
RECURSIVE CarryMul(_, _, _)
CarryMul(k, a, i) ==
    IF i = 0 THEN 0 ELSE (k * a[i] + CarryMul(k, a, i - 1)) \div Base
MulBytes(k, a) ==
    [v |-> [i \in 1..Len(a) |-> (k * a[i] + CarryMul(k, a, i - 1)) % Base],
     carry |-> CarryMul(k, a, Len(a))]
MulLimbs(k, a) == Once2(MulBytes, k, a)

\* a / k and a % k for a small k.
RECURSIVE RemLimbs(_, _, _)
RemLimbs(a, k, i) ==
    IF i > Len(a) THEN 0 ELSE (RemLimbs(a, k, i + 1) * Base + a[i]) % k
DivBytes(a, k) ==
    [q |-> [i \in 1..Len(a) |-> (RemLimbs(a, k, i + 1) * Base + a[i]) \div k],
     r |-> RemLimbs(a, k, 1)]
DivLimbs(a, k) == Once2(DivBytes, a, k)

\* apache_avro::Schema, as far as the decoder looks into it: the variant,
\* the item schema of an array or map, the variants of a union.
Leaf(t) == [type |-> t, items |-> <<>>, variants |-> <<>>]
ArrayOf(s) == [type |-> "array", items |-> <<s>>, variants |-> <<>>]
MapOf(s) == [type |-> "map", items |-> <<s>>, variants |-> <<>>]
UnionOf(vs) == [type |-> "union", items |-> <<>>, variants |-> vs]

\* A record schema with the given fields, each [name, schema].
RecordOf(fields) == [type |-> "record", fields |-> fields]

\* apache_avro::types::Value: <<variant, content>>.
AV(tag, x) == <<tag, x>>
Tag(v) == v[1]
Content(v) == v[2]

\* clickhouse_rs::types::Value: the variant, the element type of an Array
\* or Map, the content.
CH(tag, x) == [tag |-> tag, elem |-> "", x |-> x]
CHArray(t, xs) == [tag |-> "Array", elem |-> t, x |-> xs]
CHMap(t, m) == [tag |-> "Map", elem |-> t, x |-> m]

\* Result<CHValue>, and the third outcome of a call: a panic.
Ok(v) == [st |-> "ok", v |-> v, err |-> ""]
Err(e) == [st |-> "err", v |-> CH("", 0), err |-> e]
Panic(e) == [st |-> "panic", v |-> CH("", 0), err |-> e]

\* Option<&SqlType>
None == [some |-> FALSE, t |-> ""]
Some(t) == [some |-> TRUE, t |-> t]

Min(S) == CHOOSE x \in S : \A y \in S : x <= y

\* Ok((sql_type, zero)) and Err of get_schema_type.
TypeOk(t, zero) == [ok |-> TRUE, sql_type |-> t, zero |-> zero, err |-> ""]
TypeErr(e) == [ok |-> FALSE, sql_type |-> "", zero |-> CH("", 0), err |-> e]

\* translates avro type into clickhouse type and returns relevant SqlType
\* and its zero value
get_schema_type(s) ==
    CASE s.type = "boolean" -> TypeOk("Bool", CH("Bool", FALSE))
      [] s.type = "int" -> TypeOk("Int32", CH("Int32", 0))
      [] s.type = "long" -> TypeOk("Int64", CH("Int64", 0))
      [] s.type = "float" -> TypeOk("Float32", CH("Float32", 0))
      [] s.type = "double" -> TypeOk("Float64", CH("Float64", 0))
      [] s.type = "bytes" -> TypeOk("String", CH("String", ""))
      [] s.type = "string" -> TypeOk("String", CH("String", ""))
      [] s.type = "uuid" -> TypeOk("Uuid", CH("Uuid", 0))
      [] s.type = "date" -> TypeOk("Date", CH("Date", 0))
      [] s.type = "time-millis" -> TypeOk("Int32", CH("DateTime", 0))
      [] s.type = "time-micros" -> TypeOk("Int32", CH("DateTime", 0))
      [] s.type = "timestamp-millis" -> TypeOk("DateTime64(3)", CH("DateTime64(3)", 0))
      [] s.type = "timestamp-micros" -> TypeOk("DateTime64(6)", CH("DateTime64(6)", 0))
      [] s.type = "local-timestamp-millis" -> TypeOk("DateTime64(3)", CH("DateTime64(3)", 0))
      [] s.type = "local-timestamp-micros" -> TypeOk("DateTime64(6)", CH("DateTime64(6)", 0))
      [] s.type = "duration" -> TypeOk("Int64", CH("UInt64", ToLimbs(0, 8)))
      [] OTHER -> TypeErr("unsupported type")

\* Mutant: the map fields are recorded in the table of the array fields.
RECURSIVE TypeMapping_loop_one_table(_, _, _, _)
TypeMapping_loop_one_table(fields, i, arr_types, map_types) ==
    IF i > Len(fields)
    THEN [ok |-> TRUE, err |-> "", arr_types |-> arr_types, map_types |-> map_types]
    ELSE LET field == fields[i]
             t == get_schema_type(field.schema.items[1])
         IN  IF field.schema.type \notin {"array", "map"}
             THEN TypeMapping_loop_one_table(fields, i + 1, arr_types, map_types)
             ELSE IF ~t.ok
             THEN [ok |-> FALSE, err |-> t.err, arr_types |-> <<>>, map_types |-> <<>>]
             ELSE TypeMapping_loop_one_table(fields, i + 1,
                                             Append(arr_types, <<field.name, t.sql_type>>),
                                             map_types)

\* TypeMapping::new: the (name, element type) pairs of the array fields and
\* of the map fields, in field order; the first unsupported element type
\* ends it with that error.
RECURSIVE TypeMapping_loop(_, _, _, _)
TypeMapping_loop(fields, i, arr_types, map_types) ==
    IF i > Len(fields)
    THEN [ok |-> TRUE, err |-> "", arr_types |-> arr_types, map_types |-> map_types]
    ELSE LET field == fields[i]
             t == get_schema_type(field.schema.items[1])
         IN  IF field.schema.type \notin {"array", "map"}
             THEN TypeMapping_loop(fields, i + 1, arr_types, map_types)
             ELSE IF ~t.ok
             THEN [ok |-> FALSE, err |-> t.err, arr_types |-> <<>>, map_types |-> <<>>]
             ELSE IF field.schema.type = "array"
             THEN TypeMapping_loop(fields, i + 1,
                                   Append(arr_types, <<field.name, t.sql_type>>), map_types)
             ELSE TypeMapping_loop(fields, i + 1, arr_types,
                                   Append(map_types, <<field.name, t.sql_type>>))

TypeMapping_new(r) == TypeMapping_loop(r.fields, 1, <<>>, <<>>)

\* TypeMapping::get_type: the type of the first pair named column.
get_type(tm, column) ==
    LET hits == {i \in 1..Len(tm) : tm[i][1] = column}
    IN  IF hits = {} THEN None ELSE Some(tm[Min(hits)][2])

\* Mutant: a two-variant union is accepted with null in either place.
RECURSIVE analyze_loop_any_order(_, _, _)
analyze_loop_any_order(fields, i, null_values) ==
    IF i > Len(fields)
    THEN [ok |-> TRUE, err |-> "", null_values |-> null_values]
    ELSE LET fld == fields[i]
             schemas == fld.schema.variants
             t == get_schema_type(IF schemas[1].type = "null"
                                  THEN schemas[2] ELSE schemas[1])
             fail(e) == [ok |-> FALSE, err |-> e, null_values |-> <<>>]
         IN  CASE fld.schema.type = "record" ->
                     fail("nested records are not supported")
               [] fld.schema.type = "union" ->
                     IF Len(schemas) # 2
                     THEN fail("only supported union type is [null, <type>]")
                     ELSE IF schemas[1].type # "null" /\ schemas[2].type # "null"
                     THEN fail("only supported union type is [null, <type>]")
                     ELSE IF ~t.ok
                     THEN fail(t.err)
                     ELSE analyze_loop_any_order(fields, i + 1,
                                                 Append(null_values, <<fld.name, t.zero>>))
               [] OTHER -> analyze_loop_any_order(fields, i + 1, null_values)

\* analyze_schema's loop over the fields, collecting null_values.
RECURSIVE analyze_loop(_, _, _)
analyze_loop(fields, i, null_values) ==
    IF i > Len(fields)
    THEN [ok |-> TRUE, err |-> "", null_values |-> null_values]
    ELSE LET fld == fields[i]
             schemas == fld.schema.variants
             t == get_schema_type(schemas[2])
             fail(e) == [ok |-> FALSE, err |-> e, null_values |-> <<>>]
         IN  CASE fld.schema.type = "record" ->
                     fail("nested records are not supported")
               [] fld.schema.type = "union" ->
                     IF Len(schemas) # 2
                     THEN fail("only supported union type is [null, <type>]")
                     ELSE IF schemas[1].type # "null"
                     THEN fail("only supported union type is [null, <type>]")
                     ELSE IF ~t.ok
                     THEN fail(t.err)
                     ELSE analyze_loop(fields, i + 1,
                                       Append(null_values, <<fld.name, t.zero>>))
               [] OTHER -> analyze_loop(fields, i + 1, null_values)

\* checks schema for compatibility and returns type mappings for arrays and
\* maps, as well as mapping of nullable fields to its zero values
analyze_schema(s) ==
    LET tm == TypeMapping_new(s)
        nv == analyze_loop(s.fields, 1, <<>>)
        fail(e) == [ok |-> FALSE, err |-> e, array_types |-> <<>>,
                    map_types |-> <<>>, null_values |-> <<>>]
    IN  IF ~tm.ok THEN fail(tm.err)
        ELSE IF ~nv.ok THEN fail(nv.err)
        ELSE [ok |-> TRUE, err |-> "", array_types |-> tm.arr_types,
              map_types |-> tm.map_types, null_values |-> nv.null_values]

\* decoder::avro::new, given the schema get_schema returned.
new(sch, stg) ==
    LET a == analyze_schema(sch)
    IN  IF sch.type # "record"
        THEN [st |-> "err", err |-> "avro schema root must be a record"]
        ELSE IF ~a.ok
        THEN [st |-> "err", err |-> a.err]
        ELSE [st |-> "ok",
              schema |-> sch,
              array_types |-> a.array_types,
              map_types |-> a.map_types,
              name_overrides |-> stg.field_names,
              include_fields |-> stg.include_fields,
              exclude_fields |-> stg.exclude_fields,
              null_values |-> a.null_values]

\* chrono's DateTime::from_timestamp_millis and from_timestamp_micros: None
\* when the instant lies outside the years chrono can represent.
from_timestamp(x) == IF x.in_range THEN Some(x.t) ELSE None

\* Value::Date(x) => CHValue::Date(x as u16)
AsU16(x) == x % (2 ^ 16)

\* std::time::Duration: whole seconds (u64) and the sub-second part, here
\* in milliseconds.
from_millis(ms) ==
    LET F(d) == [secs |-> d.q, ms |-> d.r] IN Once1(F, DivLimbs(ms, 1000))
from_secs(s) == [secs |-> s, ms |-> 0]

\* Duration + Duration panics when the seconds overflow u64.
DurationSum(a, b) ==
    LET F(s, t) == [ok |-> s.carry = 0 /\ t.carry = 0, secs |-> t.v,
                    ms |-> (a.ms + b.ms) % 1000]
        G(s) == F(s, AddLimbs(s.v, ToLimbs((a.ms + b.ms) \div 1000, 8)))
    IN  Once1(G, AddLimbs(a.secs, b.secs))
DurationAdd(a, b) == Once2(DurationSum, a, b)

\* Duration::as_millis, a u128.
as_millis(d) ==
    AddLimbs(MulLimbs(1000, Extend(d.secs, 16)).v, ToLimbs(d.ms, 16)).v

\* Mutant: the seconds of the days are computed in u32 before the cast.
DurationMillis_u32(x) ==
    LET G(d2) == [st |-> "ok", v |-> Trunc(as_millis(d2), 8)]
        F(days, months) ==
            Once1(G, DurationAdd(DurationAdd(from_millis(Extend(x.millis, 8)),
                                             from_secs(Extend(days.v, 8))),
                                 from_secs(months.v)))
    IN  Once2(F, MulLimbs(86400, x.days), MulLimbs(30 * 86400, Extend(x.months, 8)))

\* Value::Duration(x): millis, plus days and months as seconds, as
\* milliseconds cut to u64.  The u64 products overflow (a panic in a debug
\* build, a wrapped value in a release build) when they have a carry.
DurationMillis(x) ==
    LET F(days, months) ==
            LET G(d1, d2) ==
                    IF days.carry # 0 \/ months.carry # 0
                    THEN [st |-> "overflow", v |-> Trunc(as_millis(d2), 8)]
                    ELSE IF ~d1.ok \/ ~d2.ok
                    THEN [st |-> "panic", v |-> ToLimbs(0, 8)]
                    ELSE [st |-> "ok", v |-> Trunc(as_millis(d2), 8)]
                H(d1) == Once2(G, d1, DurationAdd(d1, from_secs(months.v)))
            IN  Once1(H, DurationAdd(from_millis(Extend(x.millis, 8)),
                                     from_secs(days.v)))
    IN  Once2(F, MulLimbs(86400, Extend(x.days, 8)),
                 MulLimbs(30 * 86400, Extend(x.months, 8)))

\* Decoder::avro2ch
RECURSIVE avro2ch(_, _, _)
RECURSIVE avro2ch_elems(_, _, _, _, _)
avro2ch_elems(self, column_name, x, i, arr) ==
    IF i > Len(x)
    THEN Ok(arr)
    ELSE LET e == avro2ch(self, column_name, x[i])
         IN  IF e.st # "ok" THEN e
             ELSE avro2ch_elems(self, column_name, x, i + 1, Append(arr, e.v))

avro2ch(self, column_name, v) ==
    CASE Tag(v) = "Null" -> Err("unexpected null")
      [] Tag(v) = "Record" -> Err("unsupported nested record")
      [] Tag(v) = "Boolean" -> Ok(CH("Bool", Content(v)))
      [] Tag(v) = "Int" -> Ok(CH("Int32", Content(v)))
      [] Tag(v) = "Long" -> Ok(CH("Int64", Content(v)))
      [] Tag(v) = "Float" -> Ok(CH("Float32", Content(v)))
      [] Tag(v) = "Double" -> Ok(CH("Float64", Content(v)))
      [] Tag(v) = "Bytes" -> Ok(CH("String", Content(v)))
      [] Tag(v) = "String" -> Ok(CH("String", Content(v)))
      [] Tag(v) = "Fixed" -> Ok(CH("String", Content(v)))
      [] Tag(v) = "Enum" -> Ok(CH("String", Content(v)))
      [] Tag(v) = "Union" ->
            IF Tag(Content(v)) = "Null"
            THEN LET hits == {i \in 1..Len(self.null_values) :
                                 self.null_values[i][1] = column_name}
                 IN  IF hits = {}
                     THEN Err("cannot find nullable field")
                     ELSE Ok(self.null_values[Min(hits)][2])
            ELSE avro2ch(self, column_name, Content(v))
      [] Tag(v) = "Array" ->
            LET arr == avro2ch_elems(self, column_name, Content(v), 1, <<>>)
                column_type == get_type(self.array_types, column_name)
            IN  IF arr.st # "ok" THEN arr
                ELSE IF ~column_type.some THEN Panic("array_types: unwrap on None")
                ELSE Ok(CHArray(column_type.t, arr.v))
      [] Tag(v) = "Map" ->
            LET m == [k \in DOMAIN Content(v) |-> avro2ch(self, column_name, Content(v)[k])]
                bad == {k \in DOMAIN Content(v) : m[k].st # "ok"}
                column_type == get_type(self.map_types, column_name)
            IN  IF bad # {} THEN m[CHOOSE k \in bad : TRUE]
                ELSE IF ~column_type.some THEN Panic("map_types: unwrap on None")
                ELSE Ok(CHMap(column_type.t, [k \in DOMAIN Content(v) |-> m[k].v]))
      [] Tag(v) = "Date" -> Ok(CH("Date", AsU16(Content(v))))
      [] Tag(v) = "Decimal" -> Err("unsupported decimal type")
      [] Tag(v) = "TimeMillis" -> Ok(CH("Int32", Content(v)))
      [] Tag(v) = "TimeMicros" -> Ok(CH("Int64", Content(v)))
      [] Tag(v) \in {"TimestampMillis", "TimestampMicros",
                    "LocalTimestampMillis", "LocalTimestampMicros"} ->
            IF from_timestamp(Content(v)).some
            THEN Ok(CH("DateTime", from_timestamp(Content(v)).t))
            ELSE Panic("from_timestamp: unwrap on None")
      [] Tag(v) = "Duration" ->
            LET d == DurationMillis(Content(v))
            IN  IF d.st = "ok" THEN Ok(CH("UInt64", d.v))
                ELSE Panic("duration: arithmetic overflow")
      [] Tag(v) = "Uuid" -> Ok(CH("Uuid", Content(v)))

\* apache_avro::from_avro_datum under the decoder's schema: the record of
\* (field name, value) pairs in schema order when the bytes are a datum
\* written with that schema, an error otherwise.
from_avro_datum(sch, msg) ==
    IF msg.wellformed
    THEN [ok |-> TRUE, record |-> msg.datum, err |-> ""]
    ELSE [ok |-> FALSE, record |-> <<>>, err |-> "failed to read datum"]

\* Result<Row> of decode, and its panic.
RowOk(row) == [st |-> "ok", row |-> row, err |-> ""]
RowFail(st, e) == [st |-> st, row |-> <<>>, err |-> e]

\* Mutant: a field named in include_fields is emitted even when it is also
\* named in exclude_fields.
RECURSIVE decode_loop_include_first(_, _, _, _)
decode_loop_include_first(self, record, i, row) ==
    IF i > Len(record)
    THEN RowOk(row)
    ELSE LET column == record[i][1]
             value == record[i][2]
             v == avro2ch(self, column, value)
             found == {m \in self.name_overrides : m[1] = column}
             column_name == IF found = {} THEN column
                            ELSE (CHOOSE m \in found : TRUE)[2]
         IN  IF column \notin self.include_fields
                /\ (self.include_fields # {} \/ column \in self.exclude_fields)
             THEN decode_loop_include_first(self, record, i + 1, row)
             ELSE IF v.st # "ok"
             THEN RowFail(v.st, v.err)
             ELSE decode_loop_include_first(self, record, i + 1,
                                            Append(row, <<column_name, v.v>>))

\* Mutant: the value is converted under the overridden column name.
RECURSIVE decode_loop_renamed_first(_, _, _, _)
decode_loop_renamed_first(self, record, i, row) ==
    IF i > Len(record)
    THEN RowOk(row)
    ELSE LET column == record[i][1]
             value == record[i][2]
             found == {m \in self.name_overrides : m[1] = column}
             column_name == IF found = {} THEN column
                            ELSE (CHOOSE m \in found : TRUE)[2]
             v == avro2ch(self, column_name, value)
         IN  IF column \in self.exclude_fields
             THEN decode_loop_renamed_first(self, record, i + 1, row)
             ELSE IF self.include_fields # {} /\ column \notin self.include_fields
             THEN decode_loop_renamed_first(self, record, i + 1, row)
             ELSE IF v.st # "ok"
             THEN RowFail(v.st, v.err)
             ELSE decode_loop_renamed_first(self, record, i + 1,
                                            Append(row, <<column_name, v.v>>))

\* The loop of decode over the fields of the record.
RECURSIVE decode_loop(_, _, _, _)
decode_loop(self, record, i, row) ==
    IF i > Len(record)
    THEN RowOk(row)
    ELSE LET column == record[i][1]
             value == record[i][2]
             v == avro2ch(self, column, value)
             found == {m \in self.name_overrides : m[1] = column}
             column_name == IF found = {} THEN column
                            ELSE (CHOOSE m \in found : TRUE)[2]
         IN  IF column \in self.exclude_fields
             THEN decode_loop(self, record, i + 1, row)
             ELSE IF self.include_fields # {} /\ column \notin self.include_fields
             THEN decode_loop(self, record, i + 1, row)
             ELSE IF v.st # "ok"
             THEN RowFail(v.st, v.err)
             ELSE decode_loop(self, record, i + 1, Append(row, <<column_name, v.v>>))

\* Decoder::decode.  message[CONFLUENT_HEADER_LEN..] panics when the message
\* is shorter than the header.
decode(self, msg) ==
    LET d == from_avro_datum(self.schema, msg)
    IN  IF msg.len < CONFLUENT_HEADER_LEN
        THEN RowFail("panic", "range start index out of range for slice")
        ELSE IF ~d.ok
        THEN RowFail("err", d.err)
        ELSE decode_loop(self, d.record, 1, <<>>)

\* ------------------------------------- the Avro decoder's environment
\* Arrays and maps in a datum hold up to MaxElems elements.
MaxElems == 1

\* The types get_schema_type has an arm for, and other types a field or an
\* item may have.
SupportedTypes ==
    {"boolean", "int", "long", "float", "double", "bytes", "string", "uuid",
     "date", "time-millis", "time-micros", "timestamp-millis",
     "timestamp-micros", "local-timestamp-millis", "local-timestamp-micros",
     "duration"}
OtherTypes == {"null", "decimal", "fixed", "enum", "record"}

\* Field names of the record schemas, in field order.
FieldNames == <<"a", "b", "c">>
MapKeys == {"k"}

\* An instant chrono can represent, and one it cannot (i64::MAX
\* milliseconds or microseconds, say).
Instants == {[in_range |-> TRUE, t |-> 5], [in_range |-> FALSE, t |-> 0]}

\* The values from_avro_datum can read for a schema.
LeafValues(t) ==
    CASE t = "null" -> {AV("Null", 0)}
      [] t = "boolean" -> {AV("Boolean", TRUE)}
      [] t = "int" -> {AV("Int", 5)}
      [] t = "long" -> {AV("Long", 5)}
      [] t = "float" -> {AV("Float", 5)}
      [] t = "double" -> {AV("Double", 5)}
      [] t = "bytes" -> {AV("Bytes", "hi")}
      [] t = "string" -> {AV("String", "hi")}
      [] t = "uuid" -> {AV("Uuid", 5)}
      [] t = "date" -> {AV("Date", 5), AV("Date", 2 ^ 16 + 5)}
      [] t = "time-millis" -> {AV("TimeMillis", 5)}
      [] t = "time-micros" -> {AV("TimeMicros", 5)}
      [] t = "timestamp-millis" -> {AV("TimestampMillis", x) : x \in Instants}
      [] t = "timestamp-micros" -> {AV("TimestampMicros", x) : x \in Instants}
      [] t = "local-timestamp-millis" -> {AV("LocalTimestampMillis", x) : x \in Instants}
      [] t = "local-timestamp-micros" -> {AV("LocalTimestampMicros", x) : x \in Instants}
      [] t = "duration" ->
            {AV("Duration", [months |-> ToLimbs(0, 4), days |-> ToLimbs(1, 4),
                             millis |-> ToLimbs(1, 4)])}
      [] t = "decimal" -> {AV("Decimal", 5)}
      [] t = "fixed" -> {AV("Fixed", "hi")}
      [] t = "enum" -> {AV("Enum", "hi")}
      [] t = "record" -> {AV("Record", 0)}

RECURSIVE Values(_)
Values(s) ==
    CASE s.type = "array" ->
            {AV("Array", xs) : xs \in Seq2(Values(s.items[1]), MaxElems)}
      [] s.type = "map" ->
            {AV("Map", m) : m \in UNION {[K -> Values(s.items[1])] : K \in SUBSET MapKeys}}
      [] s.type = "union" ->
            {AV("Union", x) : x \in UNION {Values(s.variants[i]) : i \in 1..Len(s.variants)}}
      [] OTHER -> LeafValues(s.type)

\* The datums of a record schema: one value per field, in field order.
Datums(sch) ==
    {d \in [1..Len(sch.fields) -> UNION {{<<sch.fields[i].name, x>> :
                                             x \in Values(sch.fields[i].schema)} :
                                         i \in 1..Len(sch.fields)}] :
        \A i \in 1..Len(sch.fields) : d[i][1] = sch.fields[i].name}

\* The messages a topic may carry for a decoder of schema sch: too short
\* for the Confluent header, a header followed by bytes that are no datum
\* of the schema, a header followed by a datum.
Messages(sch) ==
    {[len |-> n, wellformed |-> FALSE, datum |-> <<>>] :
        n \in {0, CONFLUENT_HEADER_LEN - 1, CONFLUENT_HEADER_LEN + 1}}
    \cup {[len |-> CONFLUENT_HEADER_LEN + Len(d), wellformed |-> TRUE, datum |-> d] :
            d \in Datums(sch)}

\* Schemas of a field.
ItemSchemas ==
    {Leaf(t) : t \in SupportedTypes \cup {"record", "fixed"}}
    \cup {ArrayOf(Leaf("int")), UnionOf(<<Leaf("null"), Leaf("int")>>)}
FieldSchemas ==
    {Leaf(t) : t \in SupportedTypes \cup OtherTypes}
    \cup {ArrayOf(s) : s \in ItemSchemas}
    \cup {MapOf(s) : s \in ItemSchemas}
    \cup {UnionOf(<<Leaf("null"), s>>) : s \in ItemSchemas \ {UnionOf(<<Leaf("null"), Leaf("int")>>)}}
    \cup {UnionOf(<<Leaf("int"), Leaf("null")>>),
          UnionOf(<<Leaf("string"), Leaf("null")>>),
          UnionOf(<<Leaf("int"), Leaf("string")>>),
          UnionOf(<<Leaf("null"), Leaf("int"), Leaf("string")>>),
          UnionOf(<<Leaf("int")>>),
          UnionOf(<<Leaf("null")>>)}

\* record test { map<long> a; union { null, string } b; array<int> c; }
FilterSchema ==
    RecordOf(<<[name |-> "a", schema |-> MapOf(Leaf("long"))],
               [name |-> "b", schema |-> UnionOf(<<Leaf("null"), Leaf("string")>>)],
               [name |-> "c", schema |-> ArrayOf(Leaf("int"))]>>)

\* Settings.field_names is a HashMap: at most one new name per field.
NewNames == {"c_arr", "a"}
FieldNameMaps ==
    UNION {{{<<c, f[c]>> : c \in D} : f \in [D -> NewNames]} :
           D \in SUBSET {FieldNames[i] : i \in 1..Len(FieldNames)}}

NoSettings == [field_names |-> {}, include_fields |-> {}, exclude_fields |-> {}]

\* The ingester's own state plays no part in the decoder.
AvroIdle ==
    /\ log = [k \in Keys |-> <<>>]
    /\ batch_size = 1
    /\ InitIngester
    /\ decoder = [st |-> "none"]
    /\ message = [len |-> 0, wellformed |-> FALSE, datum |-> <<>>]
    /\ result = [st |-> "none", row |-> <<>>, err |-> ""]

\* One or two fields of any schema, no filtering and no renaming; or a
\* schema whose root is no record.
AvroInitTypes ==
    /\ schema \in {RecordOf(<<[name |-> FieldNames[1], schema |-> s]>>) : s \in FieldSchemas}
              \cup {RecordOf(<<[name |-> FieldNames[1], schema |-> s],
                               [name |-> FieldNames[2], schema |-> t]>>) :
                        s \in FieldSchemas, t \in FieldSchemas}
              \cup {[type |-> "string", fields |-> <<>>]}
    /\ settings = NoSettings
    /\ AvroIdle

\* One schema under every combination of include_fields, exclude_fields
\* and field_names.
AvroInitFilter ==
    /\ schema = FilterSchema
    /\ settings \in [field_names : FieldNameMaps,
                     include_fields : SUBSET {FieldNames[i] : i \in 1..Len(FieldNames)},
                     exclude_fields : SUBSET {FieldNames[i] : i \in 1..Len(FieldNames)}]
    /\ AvroIdle

AvroInit == AvroInitTypes \/ AvroInitFilter

\* decoder::avro::new builds the decoder, or fails.
avro_new ==
    /\ decoder.st = "none"
    /\ decoder' = new(schema, settings)
    /\ UNCHANGED <<schema, settings, message, result>>
    /\ UNCHANGED <<log, committed, table, position, batch_size, batch, topic_map,
                   pc, received, window, flush, processed>>

\* The ingester hands a payload to Decoder::decode.  A panic ends the
\* task.
avro_decode ==
    /\ decoder.st = "ok"
    /\ result.st # "panic"
    /\ \E m \in Messages(schema) :
          /\ message' = m
          /\ result' = decode(decoder, m)
    /\ UNCHANGED <<schema, settings, decoder>>
    /\ UNCHANGED <<log, committed, table, position, batch_size, batch, topic_map,
                   pc, received, window, flush, processed>>

AvroNext ==
    \/ avro_new
    \/ avro_decode

AvroSpec == AvroInit /\ [][AvroNext]_vars

\* ------------------------------------------------- duration conversion
\* Decoder::decode of a record with one duration field, for components at
\* the ends and in the middle of the u32 range.
U32Samples ==
    {ToLimbs(0, 4), ToLimbs(1, 4), ToLimbs(1000, 4), <<0, 0, 0, Base \div 2>>,
     <<Base - 1, Base - 1, Base - 1, Base - 1>>}

DurationSchema == RecordOf(<<[name |-> "a", schema |-> Leaf("duration")]>>)

DurationInit ==
    /\ schema = DurationSchema
    /\ settings = NoSettings
    /\ AvroIdle

\* The ingester hands a payload that holds one duration to Decoder::decode.
duration_decode ==
    /\ decoder.st = "ok"
    /\ result.st # "panic"
    /\ \E x \in [months : U32Samples, days : U32Samples, millis : U32Samples] :
          LET m == [len |-> CONFLUENT_HEADER_LEN + 1, wellformed |-> TRUE,
                    datum |-> <<<<"a", AV("Duration", x)>>>>]
          IN  /\ message' = m
              /\ result' = decode(decoder, m)
    /\ UNCHANGED <<schema, settings, decoder>>
    /\ UNCHANGED <<log, committed, table, position, batch_size, batch, topic_map,
                   pc, received, window, flush, processed>>

DurationNext ==
    \/ avro_new
    \/ duration_decode

DurationSpec == DurationInit /\ [][DurationNext]_vars

\* ------------------------------------------------- standalone loop (main.rs)
\* src/main.rs: get_batch, insert_batch and commit as free functions, batch
\* and topic_map local to each get_batch call, the batch moved into
\* insert_batch.

\* while batch.len() < 10
MAIN_BATCH_LEN == 10

MainLoopPc(b) == IF Len(b) < MAIN_BATCH_LEN THEN "recv" ELSE "start_check"

\* get_batch is entered: let mut batch = Vec::new(), topic_map = HashMap::new().
MainWindow == [msgs |-> <<>>, end |-> "open"]

MainLogs ==
    {l \in [Keys -> Seq2({"good", "malformed"}, LogLen)] :
         \A k \in Keys : Len(l[k]) = LogLen + 1 - k[2]}
    \cup {[k \in Keys |-> IF k[2] = 1 THEN ScenarioLog ELSE <<>>],
          [k \in Keys |-> IF k[2] = 1 THEN TombstoneLog ELSE <<"malformed", "good">>]}

\* main up to the first get_batch: subscribed, group "chafka" with nothing
\* committed, auto.offset.reset = earliest.
MainInit ==
    /\ log \in MainLogs
    /\ batch_size = MAIN_BATCH_LEN
    /\ InitIngester
    /\ NoDecoder

\* Ok(Ok(msg)): the offset is recorded, the payload decoded, the row pushed.
main_get_batch_recv(k) ==
    /\ pc = "recv"
    /\ position[k] < Len(log[k])
    /\ LET msg == Message(k, position[k])
           next_offset == NextOffset(msg)
           d == Decode(msg.payload)
       IN  /\ position' = [position EXCEPT ![k] = @ + 1]
           /\ received' = received \cup {<<k, msg.offset>>}
           /\ topic_map' = TopicMapUpdate(topic_map, MsgKey(msg), next_offset)
           /\ IF msg.payload.kind = "absent"
              THEN \* msg.payload().unwrap() panics
                   /\ batch' = batch
                   /\ pc' = "panicked"
                   /\ window' = [msgs |-> Append(window.msgs, <<k, msg.offset>>),
                                 end |-> "panic"]
              ELSE /\ batch' = IF d.ok THEN Append(batch, d.row) ELSE batch
                   /\ pc' = MainLoopPc(batch')
                   /\ window' = [msgs |-> Append(window.msgs, <<k, msg.offset>>),
                                 end |-> IF Len(batch') < MAIN_BATCH_LEN
                                         THEN "open" ELSE "full"]
    /\ UNCHANGED <<avro_vars, log, committed, table, batch_size, flush, processed>>

\* Err(_): no message within three seconds; break.
main_get_batch_timeout ==
    /\ pc = "recv"
    /\ pc' = "start_check"
    /\ window' = [window EXCEPT !.end = "timeout"]
    /\ UNCHANGED <<avro_vars, log, committed, table, position, batch_size, batch,
                   topic_map, received, flush, processed>>

\* Ok(Err(e)): the error is printed; break.
main_get_batch_error ==
    /\ pc = "recv"
    /\ pc' = "start_check"
    /\ window' = [window EXCEPT !.end = "error"]
    /\ UNCHANGED <<avro_vars, log, committed, table, position, batch_size, batch,
                   topic_map, received, flush, processed>>

\* tpl.count() == 0: continue, into the next get_batch.
main_continue ==
    /\ pc = "start_check"
    /\ Cardinality(DOMAIN topic_map) = 0
    /\ batch' = <<>>
    /\ topic_map' = EmptyMap
    /\ window' = MainWindow
    /\ pc' = "recv"
    /\ UNCHANGED <<avro_vars, log, committed, table, position, batch_size,
                   received, flush, processed>>

\* Otherwise: insert_batch(&pool, batch) is called.
main_insert ==
    /\ pc = "start_check"
    /\ Cardinality(DOMAIN topic_map) # 0
    /\ pc' = "insert_batch"
    /\ flush' = [active |-> TRUE, msgs |-> window.msgs, batch |-> batch,
                 tpl |-> topic_map, presented |-> {}, retried |-> FALSE,
                 inserted |-> <<>>, inserted_ok |-> FALSE, commits |-> <<>>,
                 prev_failed |-> IF flush.done /\ ~flush.inserted_ok
                                 THEN flush.tpl ELSE EmptyMap,
                 done |-> FALSE]
    /\ UNCHANGED <<avro_vars, log, committed, table, position, batch_size, batch,
                   topic_map, received, window, processed>>

\* batch.len() == 0: Ok(()) without touching the database.
main_insert_batch_empty ==
    /\ pc = "insert_batch"
    /\ batch = <<>>
    /\ pc' = "commit"
    /\ flush' = [flush EXCEPT !.inserted_ok = TRUE]
    /\ UNCHANGED <<avro_vars, log, committed, table, position, batch_size, batch,
                   topic_map, received, window, processed>>

\* ch.insert succeeds: the block is in the table.
main_insert_batch_ok ==
    /\ pc = "insert_batch"
    /\ batch # <<>>
    /\ table' = table \cup Rows(batch)
    /\ batch' = <<>>
    /\ pc' = "commit"
    /\ flush' = [flush EXCEPT !.presented = @ \cup {batch},
                              !.inserted = Append(@, batch),
                              !.inserted_ok = TRUE]
    /\ UNCHANGED <<avro_vars, log, committed, position, batch_size, topic_map,
                   received, window, processed>>

\* get_handle, block.push or ch.insert returns an error: main prints it and
\* loops; the batch was moved into insert_batch and is gone, tpl is dropped,
\* the consumer stays where it is.
main_insert_batch_err ==
    /\ pc = "insert_batch"
    /\ batch # <<>>
    /\ \E cause \in {"get_handle", "push", "insert"} :
          flush' = [flush EXCEPT !.presented =
                        IF cause = "insert" THEN @ \cup {batch} ELSE @,
                                 !.done = TRUE]
    /\ batch' = <<>>
    /\ topic_map' = EmptyMap
    /\ window' = MainWindow
    /\ pc' = "recv"
    /\ UNCHANGED <<avro_vars, log, committed, table, position, batch_size,
                   received, processed>>

\* consumer.commit(&tpl, Sync) succeeds.
main_commit_ok ==
    /\ pc = "commit"
    /\ committed' = Commit(committed, topic_map)
    /\ flush' = [flush EXCEPT !.commits = Append(@, [tpl |-> topic_map, ok |-> TRUE]),
                              !.done = TRUE]
    /\ batch' = <<>>
    /\ topic_map' = EmptyMap
    /\ window' = MainWindow
    /\ pc' = "recv"
    /\ UNCHANGED <<avro_vars, log, table, position, batch_size, received, processed>>

\* consumer.commit fails: the error is printed.
main_commit_fail ==
    /\ pc = "commit"
    /\ flush' = [flush EXCEPT !.commits = Append(@, [tpl |-> topic_map, ok |-> FALSE]),
                              !.done = TRUE]
    /\ batch' = <<>>
    /\ topic_map' = EmptyMap
    /\ window' = MainWindow
    /\ pc' = "recv"
    /\ UNCHANGED <<avro_vars, log, committed, table, position, batch_size,
                   received, processed>>

MainNext ==
    \/ \E k \in Keys : main_get_batch_recv(k)
    \/ main_get_batch_timeout
    \/ main_get_batch_error
    \/ main_continue
    \/ main_insert
    \/ main_insert_batch_empty
    \/ main_insert_batch_ok
    \/ main_insert_batch_err
    \/ main_commit_ok
    \/ main_commit_fail

MainSpec == MainInit /\ [][MainNext]_vars

\* ================================================================ claims
Good(m) == log[m[1]][m[2] + 1] = "good"
Malformed(m) == log[m[1]][m[2] + 1] = "malformed"

\* The rows the messages msgs decode to, in receive order.
ExpectedRows(msgs) == SelectSeq(msgs, Good)

\* Per partition key, the maximum of offset + 1 over the messages msgs.
ExpectedTpl(msgs) ==
    [k \in {msgs[i][1] : i \in 1..Len(msgs)} |-> Max(NextOffsets(msgs, k))]

InTryInsert == pc \in {"insert_batch", "sleep", "commit"}
Retrying == pc \in {"insert_batch", "sleep"}
CommitOk == flush.done /\ flush.commits[1].ok

\* C1: at-least-once. Every decodable message below a partition's committed
\* offset has been received and is in a block whose insert succeeded; the
\* consumer never stands below the committed offset, and every decodable
\* message it has passed is in the table or still in the batch. Restart is a
\* step of Spec, so this holds after a crash at any point too.
C1_AtLeastOnce ==
    \A k \in Keys :
        /\ committed[k] <= position[k]
        /\ \A o \in 0..(committed[k] - 1) :
              /\ <<k, o>> \in received
              /\ Good(<<k, o>>) => <<k, o>> \in table
        /\ pc # "panicked" =>
              \A o \in 0..(position[k] - 1) :
                  Good(<<k, o>>) => <<k, o>> \in table \cup Rows(batch)

\* A decodable message is committed and inserted, and the ingester has been
\* restarted while it held a received message it had not committed.
C1_Witness ==
    \E k \in Keys :
        /\ committed[k] > 0
        /\ \E o \in 0..(committed[k] - 1) : Good(<<k, o>>)
        /\ \E m \in received : m[1] = k /\ m[2] >= position[k]

\* C2: every received message below the committed offset has its row in the
\* table (the crate documentation's "only commit offsets of messages that
\* have been successfully inserted").
C2_OnlyInsertedCommitted ==
    \A m \in received : m[2] < committed[m[1]] => m \in table

\* C3: during the retries of one try_insert the batch and the offsets are
\* those try_insert was entered with, every block presented to insert is that
\* batch, no commit is issued before insert_batch returned Ok, and once
\* try_insert has returned exactly one commit was issued, with the window's
\* maximum next-offset per partition.
C3_InsertRetry ==
    /\ flush.presented \subseteq {flush.batch}
    /\ Retrying =>
          /\ batch = flush.batch
          /\ topic_map = flush.tpl
          /\ flush.commits = <<>>
          /\ flush.inserted = <<>>
    /\ pc = "commit" =>
          /\ flush.inserted_ok
          /\ topic_map = flush.tpl
          /\ flush.commits = <<>>
    /\ flush.done =>
          /\ Len(flush.commits) = 1
          /\ flush.commits[1].tpl = flush.tpl
          /\ flush.tpl = ExpectedTpl(flush.msgs)
          /\ flush.inserted_ok
          /\ flush.inserted = IF flush.batch = <<>> THEN <<>> ELSE <<flush.batch>>

\* An insert failed while the batch was presented, a later one succeeded and
\* the commit followed.
C3_Witness ==
    /\ flush.done
    /\ flush.retried
    /\ flush.presented = {flush.batch}
    /\ Len(flush.batch) >= 2
    /\ flush.inserted = <<flush.batch>>

\* C4 as stated: after a batch is processed the committed offset of every
\* partition with a processed message is the maximum of offset + 1 over the
\* messages of the processed windows.
C4_CommittedIsMax ==
    flush.done =>
        \A k \in Keys : processed[k] > 0 => committed[k] = processed[k]

\* C4 as amended: when the commit of the batch succeeded, the committed
\* offset of every partition with a message in the batch is the maximum of
\* offset + 1 over the batch's messages of that partition (which is also the
\* maximum over B1..Bk); whether or not it succeeded, no committed offset
\* exceeds the maximum over B1..Bk.
C4_CommittedAfterBatch ==
    flush.done =>
        /\ CommitOk =>
              \A k \in DOMAIN flush.tpl :
                  /\ committed[k] = Max(NextOffsets(flush.msgs, k))
                  /\ committed[k] = processed[k]
        /\ \A k \in Keys : processed[k] > 0 => committed[k] <= processed[k]

\* A second batch of a partition has been processed and committed.
C4_Witness ==
    /\ CommitOk
    /\ \E k \in DOMAIN flush.tpl :
          /\ committed[k] = processed[k]
          /\ \E m \in received : m[1] = k /\ m \notin Rows(flush.msgs)
                                  /\ m[2] < committed[k]

C7_RetryUntilInserted ==
    /\ [][Retrying =>
            /\ received' = received
            /\ position' = position
            /\ committed' = committed
            /\ flush'.commits = <<>>
            /\ \/ pc' \in {"insert_batch", "sleep"}
               \/ pc' = "commit" /\ flush'.inserted_ok /\ batch' = <<>>]_vars
    /\ [][InTryInsert /\ ~InTryInsert' =>
            flush'.inserted_ok /\ Len(flush'.commits) = 1]_vars
    /\ Retrying ~> (flush.done /\ flush.inserted_ok
                      /\ Rows(flush.batch) \subseteq table)

\* After a failed attempt the insert has succeeded and the commit is next.
C7_Witness ==
    /\ pc = "commit"
    /\ flush.retried
    /\ flush.inserted_ok
    /\ flush.presented = {flush.batch}
    /\ batch = <<>>

\* C8 as stated: the accepted commit that follows a failed one covers the
\* failed offsets of every partition concerned.
C8_NextCommitCoversAll ==
    CommitOk =>
        \A k \in DOMAIN flush.prev_failed : committed[k] >= flush.prev_failed[k]

\* C8 as amended: a failed commit is issued once, leaves the offsets
\* uncommitted and the inserted batch is not replayed; the accepted commit
\* that follows covers the failed offsets of the partitions it has a message
\* of, and of those only.
C8_NextCommitCovers ==
    /\ flush.done /\ ~flush.commits[1].ok =>
          /\ Len(flush.commits) = 1
          /\ Len(flush.inserted) <= 1
          /\ ~InTryInsert
          /\ Rows(batch) \cap Rows(flush.batch) = {}
          /\ \A k \in DOMAIN flush.tpl : committed[k] < flush.tpl[k]
    /\ CommitOk =>
          \A k \in DOMAIN flush.prev_failed :
              IF k \in DOMAIN flush.tpl
              THEN committed[k] >= flush.prev_failed[k]
              ELSE committed[k] < flush.prev_failed[k]

\* A commit failed and the next one, holding the partition, was accepted.
C8_Witness ==
    /\ CommitOk
    /\ \E k \in DOMAIN flush.prev_failed :
          k \in DOMAIN flush.tpl /\ committed[k] > flush.prev_failed[k]

\* C9: a window that ends with an empty batch and an empty offset map goes
\* straight to the next get_batch, with no insert and no commit; try_insert
\* runs, and inserts and commits are issued, only for a window in which a
\* message was received.
C9_EmptyWindow ==
    /\ [](InTryInsert => flush.msgs # <<>> /\ window.msgs = flush.msgs)
    /\ [](flush.presented # {} \/ flush.inserted # <<>> \/ flush.commits # <<>>
            => flush.msgs # <<>>)
    /\ [][pc = "start_check" /\ topic_map = EmptyMap /\ batch = <<>> =>
            /\ pc' \in {"recv", "start_check"}
            /\ table' = table
            /\ committed' = committed
            /\ flush' \in {flush, NoFlush}]_vars

\* An empty window has ended, after a window that was flushed.
C9_Witness ==
    /\ pc = "start_check"
    /\ window.end \in {"timeout", "error"}
    /\ window.msgs = <<>>
    /\ topic_map = EmptyMap
    /\ batch = <<>>
    /\ flush.done

\* C10: a window ends on a timeout or a recv error exactly when it ends with
\* fewer than batch_size rows; if a message was received in it, try_insert
\* is given exactly the rows decoded in the window, in order, and the
\* window's offsets: every block presented or inserted is those rows, and
\* the one commit carries those offsets.
C10_EarlyFlush ==
    /\ pc = "start_check" =>
          (window.end \in {"timeout", "error"} <=> Len(batch) < batch_size)
    /\ pc = "start_check" /\ window.end \in {"timeout", "error"}
          /\ window.msgs # <<>> =>
              /\ batch = ExpectedRows(window.msgs)
              /\ topic_map = ExpectedTpl(window.msgs)
    /\ flush.active /\ Len(flush.batch) < batch_size =>
          /\ flush.batch = ExpectedRows(flush.msgs)
          /\ flush.presented \subseteq {ExpectedRows(flush.msgs)}
          /\ \A i \in 1..Len(flush.inserted) :
                flush.inserted[i] = ExpectedRows(flush.msgs)
          /\ \A i \in 1..Len(flush.commits) :
                flush.commits[i].tpl = ExpectedTpl(flush.msgs)
    /\ flush.done /\ Len(flush.batch) < batch_size =>
          /\ Len(flush.commits) = 1
          /\ Len(flush.inserted) = IF flush.batch = <<>> THEN 0 ELSE 1

\* A window of several rows, short of batch_size, was inserted and committed.
C10_Witness ==
    /\ CommitOk
    /\ Len(flush.batch) < batch_size
    /\ Len(flush.batch) >= 2
    /\ flush.inserted = <<flush.batch>>
    /\ committed = Commit(committed, ExpectedTpl(flush.msgs))

\* C11: the batch never holds more than batch_size rows and recv is awaited
\* only with fewer; a full batch ends the window and goes to try_insert; a
\* non-empty batch becomes empty only by an insert that succeeded (or with
\* the ingester itself, when a new one is constructed); and a window that
\* has received nothing yet has an empty batch and an empty offset map.
C11_BatchBounded ==
    /\ [](Len(batch) <= batch_size)
    /\ [](pc = "recv" => Len(batch) < batch_size)
    /\ [](batch # <<>> /\ Len(batch) >= batch_size =>
            pc \in {"start_check", "insert_batch", "sleep"} /\ window.end = "full")
    /\ [](pc \in {"recv", "start_check"} /\ window.msgs = <<>> =>
            batch = <<>> /\ topic_map = EmptyMap)
    /\ [][pc = "start_check" /\ Len(batch) >= batch_size /\ batch # <<>> =>
            \/ pc' = "insert_batch" /\ batch' = batch
            \/ flush' = NoFlush /\ position' = committed]_vars
    /\ [][batch # <<>> /\ batch' # batch /\ Len(batch') <= Len(batch) =>
            \/ /\ pc = "insert_batch" /\ pc' = "commit"
               /\ batch' = <<>>
               /\ flush'.inserted = <<batch>>
               /\ Rows(batch) \subseteq table'
            \/ flush' = NoFlush /\ position' = committed /\ batch' = <<>>]_vars

\* A second window has filled the batch to batch_size rows.
C11_Witness ==
    /\ pc = "start_check"
    /\ window.end = "full"
    /\ Len(batch) = batch_size
    /\ batch_size >= 2
    /\ flush.done

\* C12: within a window the entry of a partition never decreases and never
\* disappears; a received message with offset f sets the entry of its
\* partition to max(previous entry, f + 1) and leaves the other entries
\* alone; so the map is the maximum of offset + 1 per partition over the
\* window's messages, in whatever order and however often they arrive.
C12_TrackerMonotone ==
    /\ [](topic_map = ExpectedTpl(window.msgs))
    /\ [][window'.msgs # <<>> =>
            \A k \in DOMAIN topic_map :
                k \in DOMAIN topic_map' /\ topic_map'[k] >= topic_map[k]]_vars
    /\ [][window'.msgs # <<>> /\ window'.msgs # window.msgs =>
            LET m == window'.msgs[Len(window'.msgs)]
            IN  /\ DOMAIN topic_map' = DOMAIN topic_map \cup {m[1]}
                /\ topic_map'[m[1]] =
                      IF m[1] \in DOMAIN topic_map
                      THEN Max({topic_map[m[1]], m[2] + 1})
                      ELSE m[2] + 1
                /\ \A k \in DOMAIN topic_map \ {m[1]} :
                      topic_map'[k] = topic_map[k]]_vars

\* A partition's offsets arrived out of order and one of them twice.
C12_Witness ==
    \E i, j, l \in 1..Len(window.msgs) :
        /\ i < j /\ j < l
        /\ window.msgs[i][1] = window.msgs[j][1]
        /\ window.msgs[j][1] = window.msgs[l][1]
        /\ window.msgs[j][2] < window.msgs[i][2]
        /\ window.msgs[l] = window.msgs[j]
        /\ topic_map[window.msgs[i][1]] = window.msgs[i][2] + 1

\* C13: a committed offset changes only in the commit step of try_insert,
\* after insert_batch returned Ok for the window whose messages the offset
\* covers, every decodable message of that window being in the table; and
\* with a partition's messages delivered in increasing offset order no
\* committed offset ever moves backwards.
C13_CommitAfterInsert ==
    /\ [][\A k \in Keys : committed'[k] >= committed[k]]_vars
    /\ [][committed' # committed =>
            /\ pc = "commit"
            /\ flush.inserted_ok
            /\ flush.inserted = IF flush.batch = <<>> THEN <<>> ELSE <<flush.batch>>
            /\ \A i \in 1..Len(flush.msgs) :
                  Good(flush.msgs[i]) => flush.msgs[i] \in table
            /\ \A k \in Keys :
                  committed'[k] # committed[k] =>
                      /\ NextOffsets(flush.msgs, k) # {}
                      /\ committed'[k] = Max(NextOffsets(flush.msgs, k))]_vars

\* After a retried insert, a partition's committed offset has advanced past
\* messages of an earlier window.
C13_Witness ==
    /\ CommitOk
    /\ flush.retried
    /\ \E k \in DOMAIN flush.tpl :
          /\ committed[k] = flush.tpl[k]
          /\ \E o \in 0..(committed[k] - 1) : <<k, o>> \notin Rows(flush.msgs)

\* C14: every received message whose payload cannot be decoded (an absent
\* payload included) is an error value the ingester survives: the task
\* never dies, the message contributes no row, and its offset is advanced
\* in the window's offset map.
C14_DecodeProblemSurvived ==
    /\ pc # "panicked"
    /\ \A i \in 1..Len(window.msgs) :
          ~Good(window.msgs[i]) =>
              /\ window.msgs[i] \notin Rows(batch)
              /\ window.msgs[i][1] \in DOMAIN topic_map
              /\ topic_map[window.msgs[i][1]] >= window.msgs[i][2] + 1

\* The column name decode emits for source field c.
EmittedName(c) ==
    IF \E m \in settings.field_names : m[1] = c
    THEN (CHOOSE m \in settings.field_names : m[1] = c)[2]
    ELSE c

\* Whether the filtering configuration lets source field c through.
Emitted(c) ==
    /\ c \notin settings.exclude_fields
    /\ settings.include_fields = {} \/ c \in settings.include_fields

\* The (name, value) pairs of the datum that pass the filter, in record order.
KeptFields(d) ==
    LET Test(f) == Emitted(f[1]) IN SelectSeq(d, Test)

\* C15: a decoded row holds one column per source field that is not in
\* exclude_fields and, when include_fields is non-empty, is in
\* include_fields (a name in both lists is excluded), in the record's field
\* order.
C15_FieldFiltering ==
    result.st = "ok" =>
        LET kept == KeptFields(message.datum)
        IN  /\ Len(result.row) = Len(kept)
            /\ \A i \in 1..Len(kept) :
                  /\ result.row[i][1] = EmittedName(kept[i][1])
                  /\ result.row[i][2] = avro2ch(decoder, kept[i][1], kept[i][2]).v

\* A row decoded with field b in both lists and field c in neither: only
\* field a is emitted.
C15_Witness ==
    /\ result.st = "ok"
    /\ message.wellformed
    /\ settings.include_fields = {"a", "b"}
    /\ settings.exclude_fields = {"b"}
    /\ Len(result.row) = 1
    /\ result.row[1][1] = EmittedName("a")

\* The entries of a (name, x) table under the name c.
Entries(tbl, c) == {tbl[j][2] : j \in {n \in 1..Len(tbl) : tbl[n][1] = c}}

\* C16: a source field c with name_overrides[c] = c' is emitted under c', a
\* field without override under its own name; which fields are emitted, the
\* zero value of a null field and the element type of an array or map field
\* are those of the source name c, whatever c' is, and no override makes a
\* decodable datum fail.
C16_NameOverrides ==
    /\ (schema = FilterSchema /\ message.wellformed) => result.st = "ok"
    /\ result.st = "ok" =>
         LET kept == KeptFields(message.datum)
         IN  /\ Len(result.row) = Len(kept)
             /\ \A i \in 1..Len(kept) :
                   LET c == kept[i][1]
                       val == kept[i][2]
                       out == result.row[i]
                   IN  /\ \A m \in settings.field_names : m[1] = c => out[1] = m[2]
                       /\ (\A m \in settings.field_names : m[1] # c) => out[1] = c
                       /\ (Tag(val) = "Union" /\ Tag(Content(val)) = "Null") =>
                             Entries(decoder.null_values, c) = {out[2]}
                       /\ Tag(val) = "Array" =>
                             /\ out[2].tag = "Array"
                             /\ Entries(decoder.array_types, c) = {out[2].elem}
                       /\ Tag(val) = "Map" =>
                             /\ out[2].tag = "Map"
                             /\ Entries(decoder.map_types, c) = {out[2].elem}

\* A row whose nullable field b (null in the datum) is emitted as c_arr and
\* whose array field c is emitted as a, after the map field a.
C16_Witness ==
    /\ result.st = "ok"
    /\ settings = [field_names |-> {<<"b", "c_arr">>, <<"c", "a">>},
                   include_fields |-> {}, exclude_fields |-> {}]
    /\ Tag(Content(message.datum[2][2])) = "Null"
    /\ Len(Content(message.datum[3][2])) > 0
    /\ DOMAIN Content(message.datum[1][2]) # {}
    /\ Len(result.row) = 3
    /\ result.row[1][1] = "a"
    /\ result.row[2][1] = "c_arr"
    /\ result.row[3][1] = "a"

\* The fields of the schema given to decoder::avro::new.
Fields == {schema.fields[i] : i \in 1..Len(schema.fields)}
UnionFields == {f \in Fields : f.schema.type = "union"}

Names(tbl) == {tbl[j][1] : j \in 1..Len(tbl)}
FieldsOfType(t) == {f.name : f \in {g \in Fields : g.schema.type = t}}

\* C18: the decoder built for an accepted schema has an ArrayTypes entry
\* for exactly its array fields, a MapTypes entry for exactly its map
\* fields and a NullZeros entry for exactly its union fields, one entry per
\* field and no name in two tables; and no decode of it fails or panics for
\* want of a table entry.
C18_TablesComplete ==
    decoder.st = "ok" =>
        /\ Names(decoder.array_types) = FieldsOfType("array")
        /\ Names(decoder.map_types) = FieldsOfType("map")
        /\ Names(decoder.null_values) = FieldsOfType("union")
        /\ Len(decoder.array_types) = Cardinality(FieldsOfType("array"))
        /\ Len(decoder.map_types) = Cardinality(FieldsOfType("map"))
        /\ Len(decoder.null_values) = Cardinality(FieldsOfType("union"))
        /\ Names(decoder.array_types) \cap Names(decoder.map_types) = {}
        /\ Names(decoder.array_types) \cap Names(decoder.null_values) = {}
        /\ Names(decoder.map_types) \cap Names(decoder.null_values) = {}
        /\ result.err \notin {"cannot find nullable field",
                              "array_types: unwrap on None",
                              "map_types: unwrap on None"}

\* A datum with a non-empty map and a null in a nullable field has been
\* decoded by a decoder with one MapTypes and one NullZeros entry.
C18_Witness ==
    /\ decoder.st = "ok"
    /\ result.st = "ok"
    /\ Len(decoder.map_types) = 1
    /\ Len(decoder.null_values) = 1
    /\ Len(message.datum) = 2
    /\ Tag(message.datum[1][2]) = "Map"
    /\ DOMAIN Content(message.datum[1][2]) # {}
    /\ Tag(message.datum[2][2]) = "Union"
    /\ Tag(Content(message.datum[2][2])) = "Null"

\* The column type section 4.2's table gives for an Avro type.
Section42Type(t) ==
    CASE t = "boolean" -> "Bool"
      [] t = "int" -> "Int32"
      [] t = "long" -> "Int64"
      [] t = "float" -> "Float32"
      [] t = "double" -> "Float64"
      [] t = "bytes" -> "String"
      [] t = "string" -> "String"
      [] t = "uuid" -> "Uuid"
      [] t = "date" -> "Date"
      [] t = "time-millis" -> "Int32"
      [] t = "time-micros" -> "Int32"
      [] t = "timestamp-millis" -> "DateTime64(3)"
      [] t = "timestamp-micros" -> "DateTime64(6)"
      [] t = "local-timestamp-millis" -> "DateTime64(3)"
      [] t = "local-timestamp-micros" -> "DateTime64(6)"
      [] t = "duration" -> "Int64"
      [] OTHER -> "none"

\* The schema of the field named c.
FieldSchema(c) == (CHOOSE f \in Fields : f.name = c).schema

Range(f) == {f[k] : k \in DOMAIN f}

\* Whether the emitted value out has the column type of Avro type schema s.
HasTypeOf(out, s) ==
    CASE s.type \in SupportedTypes -> out.tag = Section42Type(s.type)
      [] s.type = "array" ->
            /\ out.tag = "Array"
            /\ out.elem = Section42Type(s.items[1].type)
            /\ \A e \in Range(out.x) : e.tag = out.elem
      [] s.type = "map" ->
            /\ out.tag = "Map"
            /\ out.elem = Section42Type(s.items[1].type)
            /\ \A e \in Range(out.x) : e.tag = out.elem
      [] OTHER -> TRUE

\* C19: every value decode emits for a non-null payload has the column type
\* the table of section 4.2 gives for the field's Avro type, and the
\* elements of an emitted Array or Map have the element type of the wrapper,
\* which is the one the table gives for the item type.
C19_EmittedTypes ==
    result.st = "ok" =>
        LET kept == KeptFields(message.datum)
        IN  /\ Len(result.row) = Len(kept)
            /\ \A i \in 1..Len(kept) :
                  LET s == FieldSchema(kept[i][1])
                      val == kept[i][2]
                      out == result.row[i][2]
                  IN  IF s.type = "union"
                      THEN Tag(Content(val)) # "Null" => HasTypeOf(out, s.variants[2])
                      ELSE HasTypeOf(out, s)

\* C20: when the datum carries null for a nullable field [null, T], decode
\* emits the zero value registered for the field, and that value has the
\* column type of every value decode emits for a non-null T.
C20_NullZeroTyped ==
    result.st = "ok" =>
        LET kept == KeptFields(message.datum)
        IN  /\ Len(result.row) = Len(kept)
            /\ \A i \in 1..Len(kept) :
                  LET c == kept[i][1]
                      val == kept[i][2]
                      out == result.row[i][2]
                  IN  (Tag(val) = "Union" /\ Tag(Content(val)) = "Null") =>
                          /\ Entries(decoder.null_values, c) = {out}
                          /\ \A x \in Values(FieldSchema(c).variants[2]) :
                                LET r == avro2ch(decoder, c, AV("Union", x))
                                IN  r.st = "ok" => r.v.tag = out.tag

\* ((months * 30 + days) * 86400 * 1000) + millis in 128 bits; exact tells
\* that no step of it has a carry.
DurationExpected(x) ==
    LET m30 == MulLimbs(30, Extend(x.months, 16))
        md == AddLimbs(m30.v, Extend(x.days, 16))
        secs == MulLimbs(86400, md.v)
        ms == MulLimbs(1000, secs.v)
        total == AddLimbs(ms.v, Extend(x.millis, 16))
    IN  [v |-> total.v,
         exact |-> /\ m30.carry = 0 /\ md.carry = 0 /\ secs.carry = 0
                   /\ ms.carry = 0 /\ total.carry = 0]

\* C21: a duration of u32 months, days and millis is emitted as the UInt64
\* ((months * 30 + days) * 86400 * 1000) + millis: the number fits 64 bits
\* and no step of the conversion overflows, panics or cuts it.
C21_DurationExact ==
    (result.st # "none" /\ schema = DurationSchema) =>
        LET x == Content(message.datum[1][2])
            e == DurationExpected(x)
        IN  /\ e.exact
            /\ Fits(e.v, 8)
            /\ result.st = "ok"
            /\ result.row = <<<<"a", CH("UInt64", Trunc(e.v, 8))>>>>

\* The duration with every component at u32::MAX has been decoded.
C21_Witness ==
    /\ schema = DurationSchema
    /\ result.st = "ok"
    /\ Content(message.datum[1][2]) =
          [months |-> <<Base - 1, Base - 1, Base - 1, Base - 1>>,
           days |-> <<Base - 1, Base - 1, Base - 1, Base - 1>>,
           millis |-> <<Base - 1, Base - 1, Base - 1, Base - 1>>]
    /\ result.row[1][2].x[8] > 0

\* C22: the block given to insert is the rows of the window's decodable
\* messages in receive order: every block presented or inserted, on the first
\* attempt and on every retry, is that sequence, it holds no row twice, and
\* of two rows of one partition the one of the smaller offset, received
\* earlier, comes first.
C22_RowsInReceiveOrder ==
    /\ pc \in {"recv", "start_check"} => batch = ExpectedRows(window.msgs)
    /\ \A b \in flush.presented \cup Rows(flush.inserted) :
          /\ b = ExpectedRows(flush.msgs)
          /\ \A i, j \in 1..Len(b) :
                i < j => /\ b[i] # b[j]
                         /\ b[i][1] = b[j][1] => b[i][2] < b[j][2]

\* Two messages of one partition were received in one window; the insert of
\* their rows failed once and then succeeded.
C22_Witness ==
    /\ flush.retried
    /\ Len(flush.inserted) = 1
    /\ Len(flush.inserted[1]) = 2
    /\ flush.inserted[1][1][1] = flush.inserted[1][2][1]
    /\ flush.inserted[1][1][2] < flush.inserted[1][2][2]
    /\ flush.presented = {flush.inserted[1]}

\* try_insert runs for a window whose messages all failed to decode.
AllUndecodable ==
    /\ flush.active
    /\ flush.msgs # <<>>
    /\ \A i \in 1..Len(flush.msgs) : ~Good(flush.msgs[i])

C24_MainAtLeastOnce ==
    \A k \in Keys :
        \A o \in 0..(committed[k] - 1) :
            (o < Len(log[k]) /\ Good(<<k, o>>)) => <<k, o>> \in table
====
